---- MODULE Spec2Model ----
(***************************************************************************)
(* Model of wallo's background work dispatch (src/wallo/worker.py):        *)
(* Worker.__init__, Worker.run with its per-work-type handlers, and the    *)
(* tool-calling loop Worker.runAgents, together with the shared message    *)
(* history of LLMProcessor (src/wallo/llmProcessor.py), and of the main    *)
(* window that launches the jobs and handles their signals                 *)
(* (src/wallo/main.py, src/wallo/exchange.py).                             *)
(*                                                                         *)
(* Spec follows one Worker given any work dictionary through run() and     *)
(* runAgents. SpecUI follows the main window with its two exchanges and up *)
(* to two jobs in flight, launched by the handlers of the UI. SpecPair     *)
(* follows two chat jobs with tools side by side on the one history, and   *)
(* SpecConfig the profiles of ConfigurationManager                         *)
(* (src/wallo/configManager.py) and the system prompt of LLMProcessor.     *)
(*                                                                         *)
(* Text is modelled as a sequence of string pieces, so that an f-string    *)
(* is the concatenation of its literal pieces and its interpolated values. *)
(* Every call to a collaborator (model client, retrieval, PDF extraction,   *)
(* transcription, ingestion, speech API) either returns or raises an       *)
(* Exception; which one is a nondeterministic choice. Which tools raise    *)
(* when invoked, and whether the history's add_message raises, is chosen   *)
(* when the worker is constructed and fixed for its run.                   *)
(***************************************************************************)
EXTENDS Integers, Sequences, FiniteSets, TLC

\* Largest number of tool calls one assistant turn of the model stub requests.
MaxCalls == 2

\* worker.py:116  for _ in range(6)
MaxRounds == 6

Workers == {"w1", "w2"}
\* The worker whose execution the specification Spec follows.
SoloWorker == "w1"

\* The four work types run() handles and two it does not.
KnownWorkTypes == {"chatAPI", "transcribeAudio", "ingestRAG", "tts"}
WorkTypes == KnownWorkTypes \cup {"pdfExtraction", "other"}

\* The tools of Agents (agents.py:14-16) by name.
WebsearchTool == "websearch"
SqliteDescribeTool == "sqliteDescribe"
SqliteQueryTool == "sqliteQuery"

\* agents.py:121-130 getAgentTools as a function of useAgents / usePastaEln.
\* The result is a record: none = TRUE stands for Python's None.
GetAgentTools(useAgents, usePastaEln) ==
    IF ~useAgents THEN [none |-> TRUE, tools |-> << >>]
    ELSE IF usePastaEln
         THEN [none |-> FALSE,
               tools |-> <<WebsearchTool, SqliteDescribeTool, SqliteQueryTool>>]
         ELSE [none |-> FALSE, tools |-> <<WebsearchTool>>]

\* ---------------------------------------------------------------- text

\* '\n\n'.join(parts)
RECURSIVE JoinBlank(_)
JoinBlank(parts) ==
    IF Len(parts) = 0 THEN << >>
    ELSE IF Len(parts) = 1 THEN <<parts[1]>>
    ELSE <<parts[1], "\n\n">> \o JoinBlank(Tail(parts))

\* Mutant of RagContextBlock: the snippets are joined by a single newline.
RagContextBlockNewline(snippets) ==
    <<"\n\n", "Context:", "\n", "---", "\n">>
        \o [i \in 1..(2 * Len(snippets) - 1) |->
               IF i % 2 = 1 THEN snippets[(i + 1) \div 2] ELSE "\n"]
        \o <<"\n", "---", "\n">>

\* worker.py:47  f"\n\nContext:\n---\n{'\n\n'.join(retrieved)}\n---\n"
RagContextBlock(snippets) ==
    <<"\n\n", "Context:", "\n", "---", "\n">> \o JoinBlank(snippets) \o <<"\n", "---", "\n">>

\* worker.py:52  f"{pdfText}\n\n"
PdfContextOf(pdfText) == pdfText \o <<"\n\n">>

\* Mutant of AssemblePrompt: the PDF context is put before the retrieval context.
AssemblePromptPdfFirst(basePrompt, rag, pdf, selectedText) ==
    basePrompt \o pdf \o rag \o selectedText

\* worker.py:53  f"{prompt}{ragContext}{pdfContext}{selectedText}"
AssemblePrompt(basePrompt, rag, pdf, selectedText) ==
    basePrompt \o rag \o pdf \o selectedText

\* worker.py:131
ToolNotAvailable(name) == <<"Tool '", name, "' is not available.">>

\* worker.py:136
ToolFailed(name, msg) == <<"Tool '", name, "' failed: ">> \o msg

\* str(n) of a non-negative int: its decimal digits, one piece per digit.
DigitText == <<"0", "1", "2", "3", "4", "5", "6", "7", "8", "9">>
RECURSIVE Decimal(_)
Decimal(n) ==
    IF n < 10 THEN <<DigitText[n + 1]>>
    ELSE Append(Decimal(n \div 10), DigitText[(n % 10) + 1])

\* Mutant of IngestSuccess: the count is reported without the leading "Success | ".
IngestSuccessNoPrefix(n) == <<"Chunks indexed: ">> \o Decimal(n)

\* worker.py:83  f"Success | Chunks indexed: {chunks}"
IngestSuccess(n) == <<"Success | Chunks indexed: ">> \o Decimal(n)

\* worker.py:94
UnknownWorkTypeReason == <<"Unknown work type">>

\* str(KeyError(key)) is the repr of the key
KeyErrorText(key) == <<"'", key, "'">>

\* ------------------------------------------------------------ messages

NoCalls == << >>

HumanMessage(text) ==
    [type |-> "human", content |-> text, tool_call_id |-> << >>, tool_calls |-> NoCalls]
AIMessage(text, calls) ==
    [type |-> "ai", content |-> text, tool_call_id |-> << >>, tool_calls |-> calls]
ToolMessage(text, callId) ==
    [type |-> "tool", content |-> text, tool_call_id |-> callId, tool_calls |-> NoCalls]
SystemMessage(text) ==
    [type |-> "system", content |-> text, tool_call_id |-> << >>, tool_calls |-> NoCalls]

\* llmProcessor.py:25
DefaultSystemPrompt == <<"You are a helpful assistant.">>

\* ------------------------------------------------------------ environment

\* The i-th tool name of the model stub's assistant turns: websearch, sqliteQuery,
\* websearch, ...
StubToolName(i) == IF i % 2 = 1 THEN WebsearchTool ELSE SqliteQueryTool

\* The tool-call lists the model stub may answer with in round r (0-based): no call,
\* one call or MaxCalls calls, each call a dict with its name and its id.
ModelReplies(r) ==
    { [i \in 1..n |-> [name |-> StubToolName(i), id |-> <<"call", r + 1, i>>]] :
        n \in {0, 1, MaxCalls} }

\* The tool-call lists of a scripted model for worker j: one websearch call with an
\* id of its own in the first round, the plain answer after that.
ScriptedReplies(j, r) ==
    IF r = 0 THEN {<<[name |-> WebsearchTool, id |-> <<"call", j, 1>>]>>}
    ELSE {<< >>}

ExcLLM == <<"model client error">>
ExcTool == <<"tool error">>
ExcBind == <<"bind_tools error">>
ExcRetrieve == <<"retrieval error">>
ExcPdf == <<"pdf extraction error">>
ExcRunnable == <<"runnable error">>
ExcBlob == <<"no such audio file">>
ExcParse == <<"transcription error">>
ExcIngest == <<"ingestion error">>
ExcSpeech == <<"speech api error">>
ExcWrite == <<"file write error">>

\* str(tool.invoke(args)) of a tool that returns
ToolOutput(name) == <<"output of ", name>>

\* ------------------------------------------------------------ state

VARIABLES
    pc,           \* per worker: where its life / its run() stands
    workType,     \* Worker.workType
    objects,      \* Worker.objects, the work dictionary
    env,          \* behaviour of the collaborators handed to the worker
    signals,      \* per worker: the signals emitted so far, in order
    exc,          \* per worker: the exception raised inside run(), if any
    prompt,       \* run(): local prompt after assembly
    ragContext,   \* run(): local ragContext
    messages,     \* runAgents: working message list
    newMessages,  \* runAgents: the turns of this call
    round,        \* runAgents: iterations of the for loop completed
    pending,      \* runAgents: tool calls of the current turn not yet processed
    invocations,  \* runAgents: llmWithTools.invoke calls made
    invoked,      \* runAgents: ids of the tool calls whose tool was invoked, in order
    saveIdx,      \* runAgents: messages of newMessages handed to add_message
    hist0,        \* history.messages when runAgents / runnable.invoke began
    content,      \* run(): local content
    history,      \* LLMProcessor.messageHistory.messages
    retrieved,    \* run(): local retrieved, the snippets retrieve returned
    pdfContext,   \* run(): local pdfContext
    chunks,       \* run(): local chunks, the count ingestPaths returned
    runnableCalls,  \* per worker: session ids of its runnable.invoke calls, in order
    bindCalls,      \* per worker: llmClient.bind_tools calls made
    activeThreads,         \* Wallo.activeThreads: the QThread objects, by name
    activeWorkers,         \* Wallo.activeWorkers
    threadState,           \* per worker: its QThread not started / running / finished
    handled,               \* per worker: the slot of Wallo for its signal has run
    origin,                \* per worker: the exchange that launched it
    exchanges,             \* per exchange: busy overlay shown, text1, text2
    uiException,           \* the exception that last left a handler of the UI
    promptCalls,           \* the calls of setSystemPrompt made, per prompt name
    systemPromptInjected,  \* LLMProcessor.systemPromptInjected
    runnable,              \* LLMProcessor.runnable: "None" or the client it is bound to
    jobRunnable,           \* per worker: the service of its request and the client
                           \* of the runnable in its work dictionary
    config,                \* ConfigurationManager._config['profiles']
    currentProfile,        \* ConfigurationManager._currentProfile
    configFile             \* the profiles in the configuration file

llmVars == <<runnable, jobRunnable>>
configVars == <<config, currentProfile, configFile>>

uiVars == <<activeThreads, activeWorkers, threadState, handled, origin, exchanges,
            uiException, promptCalls, systemPromptInjected, llmVars, configVars>>

callVars == <<runnableCalls, bindCalls>>

vars == <<pc, workType, objects, env, signals, exc, prompt, ragContext, messages,
          newMessages, round, pending, invocations, invoked, saveIdx, hist0, content,
          history, retrieved, pdfContext, chunks, callVars, uiVars>>

NoExc == [src |-> "none", msg |-> << >>]

\* The Exchange widgets of the main window by uuid (main.py:249, exchange.py:385).
Exchanges == {"ex1", "ex2"}

\* exchange.py:121-122: the overlay starts hidden; text1 holds what the user typed.
NewExchange == [busy |-> FALSE, text1 |-> <<"user text">>, text2 |-> << >>]

NoOrigin == "absent"
NoUiException == [src |-> "none", type |-> "none", msg |-> << >>]

\* llmProcessor.py:28  self.runnable = None
NoRunnable == "None"
NoJobRunnable == [service |-> "none", client |-> "none"]

\* A profile entry of the configuration: its name and whether the entry conforms to
\* the schema validateConfig validates against (configManager.py:88-99).
ProfileNames == {"Default", "Lab"}
Profiles == [name : ProfileNames, valid : BOOLEAN]

\* configManager.py:11-38: the profiles of DEFAULT_CONFIGURATION.
DefaultProfiles == <<[name |-> "Default", valid |-> TRUE]>>

\* The profile names of the configuration (configManager.py:11).
PromptNames == {"Default"}

\* The keys Worker.run reads per work type (worker.py:37-40,43,56-59,70-71,80-81,87-89).
KeysRead(wt) ==
    CASE wt = "chatAPI" -> {"runnable", "prompt", "selectedText", "pdfFilePath",
                            "ragRunnable", "messageHistory", "agentTools", "llmClient"}
      [] wt = "transcribeAudio" -> {"runnable", "path"}
      [] wt = "ingestRAG" -> {"runnable", "filePaths"}
      [] wt = "tts" -> {"apiKey", "content", "filePaths"}
      [] OTHER -> {}

AllKeys == UNION {KeysRead(wt) : wt \in WorkTypes} \cup {"senderID"}

\* The work dictionaries a worker is constructed with: all keys the work type reads
\* plus senderID, or the same with one key left out.
KeySets(wt) ==
    LET full == KeysRead(wt) \cup {"senderID"}
    IN  {full} \cup {full \ {k} : k \in full}

\* The tools the chat work dictionary carries: Agents.getAgentTools().
AgentToolChoices ==
    {GetAgentTools(u, p) : u \in BOOLEAN, p \in BOOLEAN}

ChatWork ==
    [keys : KeySets("chatAPI"),
     senderID : {"ex1"},
     prompt : {<<"Summarize:">>},
     selectedText : {<<"selected text">>},
     pdfFilePath : {"", "paper.pdf"},
     ragRunnable : {"None", "ragIndexer"},
     agentTools : AgentToolChoices,
     bindTools : BOOLEAN]

OtherWork(wt) ==
    [keys : KeySets(wt),
     senderID : {IF wt = "tts" THEN "tts" ELSE "ex1"},
     prompt : {<< >>},
     selectedText : {<< >>},
     pdfFilePath : {""},
     ragRunnable : {"None"},
     agentTools : {GetAgentTools(FALSE, FALSE)},
     bindTools : {FALSE}]

WorkDicts(wt) == IF wt = "chatAPI" THEN ChatWork ELSE OtherWork(wt)

NoWork ==
    [keys |-> {}, senderID |-> "", prompt |-> << >>, selectedText |-> << >>,
     pdfFilePath |-> "", ragRunnable |-> "None",
     agentTools |-> GetAgentTools(FALSE, FALSE), bindTools |-> FALSE]

\* Which registered tools raise when invoked, whether the history's add_message
\* raises, and whether the model answers by ScriptedReplies instead of
\* ModelReplies: fixed per worker by the objects it is handed.
Envs(work) ==
    [failingTools : IF work.agentTools.none \/ ~work.bindTools
                    THEN {{}}
                    ELSE SUBSET ({n \in {WebsearchTool, SqliteQueryTool} :
                                     \E i \in 1..Len(work.agentTools.tools) :
                                         work.agentTools.tools[i] = n}),
     addRaises : IF work.agentTools.none \/ ~work.bindTools THEN {FALSE} ELSE BOOLEAN,
     scripted : {FALSE}]

NoEnv == [failingTools |-> {}, addRaises |-> FALSE, scripted |-> FALSE]

\* llmProcessor.py:24-29: the history is empty after construction; the history a
\* Worker is handed may already hold a system turn (llmProcessor.py:63).
InitialHistories == {<< >>, <<SystemMessage(DefaultSystemPrompt)>>}

Init ==
    /\ pc = [j \in Workers |-> "absent"]
    /\ workType = [j \in Workers |-> "none"]
    /\ objects = [j \in Workers |-> NoWork]
    /\ env = [j \in Workers |-> NoEnv]
    /\ signals = [j \in Workers |-> << >>]
    /\ exc = [j \in Workers |-> NoExc]
    /\ prompt = [j \in Workers |-> << >>]
    /\ ragContext = [j \in Workers |-> << >>]
    /\ messages = [j \in Workers |-> << >>]
    /\ newMessages = [j \in Workers |-> << >>]
    /\ round = [j \in Workers |-> 0]
    /\ pending = [j \in Workers |-> NoCalls]
    /\ invocations = [j \in Workers |-> 0]
    /\ invoked = [j \in Workers |-> << >>]
    /\ saveIdx = [j \in Workers |-> 0]
    /\ hist0 = [j \in Workers |-> << >>]
    /\ content = [j \in Workers |-> << >>]
    /\ history \in InitialHistories
    /\ retrieved = [j \in Workers |-> << >>]
    /\ pdfContext = [j \in Workers |-> << >>]
    /\ chunks = [j \in Workers |-> 0]
    /\ runnableCalls = [j \in Workers |-> << >>]
    /\ bindCalls = [j \in Workers |-> 0]
    /\ activeThreads = << >>
    /\ activeWorkers = << >>
    /\ threadState = [j \in Workers |-> "none"]
    /\ handled = [j \in Workers |-> FALSE]
    /\ origin = [j \in Workers |-> NoOrigin]
    /\ exchanges = [e \in Exchanges |-> NewExchange]
    /\ uiException = NoUiException
    /\ promptCalls = [name \in PromptNames |-> 0]
    /\ systemPromptInjected = FALSE
    /\ runnable = NoRunnable
    /\ jobRunnable = [j \in Workers |-> NoJobRunnable]
    /\ config = DefaultProfiles
    /\ currentProfile = DefaultProfiles[1].name
    /\ configFile = DefaultProfiles

\* ------------------------------------------------------------ signals

\* Signal.emit(text, self.senderID, self.workType): worker.py:15-16,28
Emit(j, kind, text) ==
    Append(signals[j], [signal |-> kind, text |-> text,
                        senderID |-> objects[j].senderID, workType |-> workType[j]])

loopVars == <<messages, newMessages, round, pending, invocations, invoked, saveIdx, hist0>>
workVars == <<workType, objects, env>>

\* Mutant of ExceptClause: run() without its try/except, the exception leaves run().
ExceptClauseMissing(j, src, msg) ==
    /\ exc' = [exc EXCEPT ![j] = [src |-> src, msg |-> msg]]
    /\ pc' = [pc EXCEPT ![j] = "escaped"]
    /\ UNCHANGED signals

\* worker.py:96-97  except Exception as e: self.error.emit(str(e), ...)
\* Stated for an exception raised at step src with str(e) = msg; run() then returns.
ExceptClause(j, src, msg) ==
    /\ signals' = [signals EXCEPT ![j] = Emit(j, "error", msg)]
    /\ exc' = [exc EXCEPT ![j] = [src |-> src, msg |-> msg]]
    /\ pc' = [pc EXCEPT ![j] = "returned"]

\* self.objects[key] for each key of keys: the first missing one raises KeyError.
MissingKeys(j, keys) == keys \ objects[j].keys

\* ------------------------------------------------------------ Worker.__init__

\* worker.py:18-29 (constructed by Wallo.runWorker, main.py:218). A work dictionary
\* without senderID raises KeyError in the constructor.
Construct(j, wt, work, e) ==
    IF "senderID" \notin work.keys
    THEN /\ pc' = [pc EXCEPT ![j] = "ctorRaised"]
         /\ UNCHANGED workVars
    ELSE /\ pc' = [pc EXCEPT ![j] = "created"]
         /\ workType' = [workType EXCEPT ![j] = wt]
         /\ objects' = [objects EXCEPT ![j] = work]
         /\ env' = [env EXCEPT ![j] = e]

\* A Worker constructed with any work type and work dictionary, then started.
CreateWorker(j) ==
    /\ pc[j] = "absent"
    /\ \E wt \in WorkTypes :
         \E work \in WorkDicts(wt) :
           \E e \in Envs(work) : Construct(j, wt, work, e)
    /\ UNCHANGED <<uiVars, callVars, chunks, retrieved, pdfContext, signals, exc, prompt,
                   ragContext, loopVars, content, history>>

\* ------------------------------------------------------------ Worker.run

\* worker.py:35,69,79,85,93: the if/elif chain on self.workType.
HandlerOf(wt) ==
    CASE wt = "chatAPI" -> "chat"
      [] wt = "transcribeAudio" -> "transcribe"
      [] wt = "ingestRAG" -> "ingest"
      [] wt = "tts" -> "tts"
      [] OTHER -> "unknown"

\* worker.py:32-35: thread.started calls run(), which selects the handler.
RunDispatch(j) ==
    /\ pc[j] = "created"
    /\ pc' = [pc EXCEPT ![j] = HandlerOf(workType[j])]
    /\ UNCHANGED <<uiVars, callVars, chunks, retrieved, pdfContext, workVars, signals, exc, prompt,
                   ragContext, loopVars, content, history>>

\* Mutant of UnknownWorkType: the else branch emits on the wrong signal.
UnknownWorkTypeFinished(j) ==
    /\ pc[j] = "unknown"
    /\ signals' = [signals EXCEPT ![j] = Emit(j, "finished", UnknownWorkTypeReason)]
    /\ pc' = [pc EXCEPT ![j] = "returned"]
    /\ UNCHANGED <<uiVars, callVars, chunks, retrieved, pdfContext, workVars, exc, prompt,
                   ragContext, loopVars, content, history>>

\* worker.py:93-94
UnknownWorkType(j) ==
    /\ pc[j] = "unknown"
    /\ signals' = [signals EXCEPT ![j] = Emit(j, "error", UnknownWorkTypeReason)]
    /\ pc' = [pc EXCEPT ![j] = "returned"]
    /\ UNCHANGED <<uiVars, callVars, chunks, retrieved, pdfContext, workVars, exc, prompt,
                   ragContext, loopVars, content, history>>

\* worker.py:69-76
TranscribeAudio(j) ==
    /\ pc[j] = "transcribe"
    /\ LET missing == MissingKeys(j, {"runnable", "path"})
       IN  IF missing # {}
           THEN (\E k \in missing : ExceptClause(j, "key", KeyErrorText(k)))
                /\ UNCHANGED content
           ELSE \/ ExceptClause(j, "blob", ExcBlob) /\ UNCHANGED content
                \/ ExceptClause(j, "parse", ExcParse) /\ UNCHANGED content
                \/ \E docs \in {<< >>, <<[page_content |-> <<"transcript", "\n">>]>>} :
                     LET text == IF Len(docs) > 0 THEN docs[1].page_content ELSE << >>
                     IN  /\ content' = [content EXCEPT ![j] = text]
                         /\ signals' = [signals EXCEPT ![j] = Emit(j, "finished", text)]
                         /\ pc' = [pc EXCEPT ![j] = "returned"]
                         /\ UNCHANGED exc
    /\ UNCHANGED <<uiVars, callVars, chunks, retrieved, pdfContext, workVars, prompt, ragContext,
                   loopVars, history>>

\* The chunk counts ingestPaths may return (ragIndexer.py:57,60).
ChunkCounts == {0, 9, 12}

\* worker.py:79-83
IngestRAG(j) ==
    /\ pc[j] = "ingest"
    /\ LET missing == MissingKeys(j, {"runnable", "filePaths"})
       IN  IF missing # {}
           THEN (\E k \in missing : ExceptClause(j, "key", KeyErrorText(k)))
                /\ UNCHANGED chunks
           ELSE \/ ExceptClause(j, "ingest", ExcIngest) /\ UNCHANGED chunks
                \/ \E n \in ChunkCounts :
                     /\ chunks' = [chunks EXCEPT ![j] = n]
                     /\ signals' = [signals EXCEPT ![j] =
                                      Emit(j, "finished", IngestSuccess(n))]
                     /\ pc' = [pc EXCEPT ![j] = "returned"]
                     /\ UNCHANGED exc
    /\ UNCHANGED <<uiVars, callVars, retrieved, pdfContext, workVars, prompt, ragContext, loopVars,
                   content, history>>

\* worker.py:85-92: the audio is written to the file and no signal is emitted.
TextToSpeech(j) ==
    /\ pc[j] = "tts"
    /\ LET missing == MissingKeys(j, {"apiKey", "content", "filePaths"})
       IN  IF missing # {}
           THEN \E k \in missing : ExceptClause(j, "key", KeyErrorText(k))
           ELSE \/ ExceptClause(j, "speech", ExcSpeech)
                \/ ExceptClause(j, "write", ExcWrite)
                \/ /\ pc' = [pc EXCEPT ![j] = "returned"]
                   /\ UNCHANGED <<signals, exc>>
    /\ UNCHANGED <<uiVars, callVars, chunks, retrieved, pdfContext, workVars, prompt, ragContext,
                   loopVars, content, history>>

\* ------------------------------------------------------------ chatAPI

\* worker.py:37-40
ChatReadWork(j) ==
    /\ pc[j] = "chat"
    /\ LET missing == MissingKeys(j, {"runnable", "prompt", "selectedText", "pdfFilePath"})
       IN  IF missing # {}
           THEN \E k \in missing : ExceptClause(j, "key", KeyErrorText(k))
           ELSE /\ pc' = [pc EXCEPT ![j] = "chat_rag"]
                /\ UNCHANGED <<signals, exc>>
    /\ UNCHANGED <<uiVars, callVars, chunks, retrieved, pdfContext, workVars, prompt, ragContext,
                   loopVars, content, history>>

\* What ragRunnable.retrieve may return (ragIndexer.py:63-75).
Retrievals == {<< >>, <<"alpha", "beta">>}

\* worker.py:41-47
ChatRag(j) ==
    /\ pc[j] = "chat_rag"
    /\ IF "ragRunnable" \notin objects[j].keys
       THEN /\ ExceptClause(j, "key", KeyErrorText("ragRunnable"))
            /\ UNCHANGED <<ragContext, retrieved>>
       ELSE IF objects[j].ragRunnable = "None"
       THEN /\ ragContext' = [ragContext EXCEPT ![j] = << >>]
            /\ pc' = [pc EXCEPT ![j] = "chat_pdf"]
            /\ UNCHANGED <<signals, exc, retrieved>>
       ELSE \/ ExceptClause(j, "retrieve", ExcRetrieve) /\ UNCHANGED <<ragContext, retrieved>>
            \/ \E snippets \in Retrievals :
                 /\ retrieved' = [retrieved EXCEPT ![j] = snippets]
                 /\ ragContext' = [ragContext EXCEPT ![j] =
                       IF Len(snippets) > 0 THEN RagContextBlock(snippets) ELSE << >>]
                 /\ pc' = [pc EXCEPT ![j] = "chat_pdf"]
                 /\ UNCHANGED <<signals, exc>>
    /\ UNCHANGED <<uiVars, callVars, chunks, pdfContext, workVars, prompt, loopVars, content,
                   history>>

\* What PdfDocumentProcessor.extractTextFromPdf returns when it returns.
PdfTexts == {<<"pdf text">>}

\* worker.py:48-55
ChatPdf(j) ==
    /\ pc[j] = "chat_pdf"
    /\ IF objects[j].pdfFilePath # ""
       THEN \/ ExceptClause(j, "pdf", ExcPdf) /\ UNCHANGED <<prompt, pdfContext>>
            \/ \E pdfText \in PdfTexts :
                 /\ pdfContext' = [pdfContext EXCEPT ![j] = PdfContextOf(pdfText)]
                 /\ prompt' = [prompt EXCEPT ![j] =
                       AssemblePrompt(objects[j].prompt, ragContext[j],
                                      PdfContextOf(pdfText), objects[j].selectedText)]
                 /\ pc' = [pc EXCEPT ![j] = "chat_path"]
                 /\ UNCHANGED <<signals, exc>>
       ELSE /\ pdfContext' = [pdfContext EXCEPT ![j] = << >>]
            /\ prompt' = [prompt EXCEPT ![j] =
                 AssemblePrompt(objects[j].prompt, ragContext[j], << >>,
                                objects[j].selectedText)]
            /\ pc' = [pc EXCEPT ![j] = "chat_path"]
            /\ UNCHANGED <<signals, exc>>
    /\ UNCHANGED <<uiVars, callVars, chunks, retrieved, workVars, ragContext, loopVars, content,
                   history>>

\* Mutant of UsesAgents: the client is not asked for bind_tools.
UsesAgentsUnchecked(work) == ~work.agentTools.none

\* worker.py:59  agentTools is not None and hasattr(llmClient, 'bind_tools')
UsesAgents(work) == ~work.agentTools.none /\ work.bindTools

\* worker.py:56-61: messageHistory and agentTools are read, llmClient only when
\* agentTools is not None.
ChatChoosePath(j) ==
    /\ pc[j] = "chat_path"
    /\ LET missing == MissingKeys(j, {"messageHistory", "agentTools"}
                          \cup (IF objects[j].agentTools.none THEN {} ELSE {"llmClient"}))
       IN  IF missing # {}
           THEN \E k \in missing : ExceptClause(j, "key", KeyErrorText(k))
           ELSE /\ pc' = [pc EXCEPT ![j] =
                     IF UsesAgents(objects[j]) THEN "agents_begin" ELSE "chat_invoke"]
                /\ UNCHANGED <<signals, exc>>
    /\ UNCHANGED <<uiVars, callVars, chunks, retrieved, pdfContext, workVars, prompt, ragContext,
                   loopVars, content, history>>

\* The answer text of the model.
Answer == <<"answer">>

\* worker.py:62  {'configurable': {'session_id': 'global'}}
SessionId == "global"

\* worker.py:62-63: RunnableWithMessageHistory (llmProcessor.py:105) appends the
\* user turn and the answer to the history it is bound to when the model returns.
ChatInvoke(j) ==
    /\ pc[j] = "chat_invoke"
    /\ runnableCalls' = [runnableCalls EXCEPT ![j] = Append(@, SessionId)]
    /\ \/ ExceptClause(j, "runnable", ExcRunnable) /\ UNCHANGED <<content, history, hist0>>
       \/ /\ hist0' = [hist0 EXCEPT ![j] = history]
          /\ history' = history \o <<HumanMessage(prompt[j]), AIMessage(Answer, NoCalls)>>
          /\ content' = [content EXCEPT ![j] = Answer]
          /\ pc' = [pc EXCEPT ![j] = "chat_emit"]
          /\ UNCHANGED <<signals, exc>>
    /\ UNCHANGED <<uiVars, chunks, retrieved, pdfContext, workVars, prompt, ragContext,
                   messages, newMessages, round, pending,
                   invocations, invoked, saveIdx, bindCalls>>

\* worker.py:64-66
ChatEmit(j) ==
    /\ pc[j] = "chat_emit"
    /\ signals' = [signals EXCEPT ![j] = Emit(j, "finished", content[j])]
    /\ pc' = [pc EXCEPT ![j] = "returned"]
    /\ UNCHANGED <<uiVars, callVars, chunks, retrieved, pdfContext, workVars, exc, prompt,
                   ragContext, loopVars, content, history>>

\* ------------------------------------------------------------ Worker.runAgents

\* worker.py:109  toolMap = {t.name: t for t in agentTools}
ToolMap(agentTools) ==
    [n \in {agentTools[i] : i \in 1..Len(agentTools)} |-> n]

\* worker.py:130  toolMap[name]: a dict subscript, KeyError for a name that is no key.
ToolMapHas(toolMap, name) == name \in DOMAIN toolMap

\* Mutant of LoopHasNext: an off-by-one loop bound.
LoopHasNextOffByOne(r) == r <= MaxRounds

\* worker.py:116  for _ in range(6): whether an iteration follows r completed ones.
LoopHasNext(r) == r < MaxRounds

\* Mutant of AfterIteration: the loop is left after five rounds.
AfterIterationEarly(r) == IF r < MaxRounds - 1 THEN "agents_invoke" ELSE "agents_save"

AfterIteration(r) == IF LoopHasNext(r) THEN "agents_invoke" ELSE "agents_save"

\* Mutant of NextToolCall: the calls are processed from the end of the list.
NextToolCallReversed(calls) == calls[Len(calls)]

\* worker.py:125  for toolCall in toolCalls: the call processed next.
NextToolCall(calls) == Head(calls)

\* Mutant of TurnsToSave: the whole working list is written back.
TurnsToSaveAll(j) == messages[j]

\* worker.py:144  for msg in newMessages
TurnsToSave(j) == newMessages[j]

\* Mutant of ToolResultOf: the failure text is the bare exception message.
ToolResultBareMessage(name, failingTools) ==
    IF name \in failingTools THEN ExcTool ELSE ToolOutput(name)

\* worker.py:133-136: the tool is invoked inside try/except; a raising tool yields
\* the failure text as its result.
ToolResultOf(name, failingTools) ==
    IF name \in failingTools THEN ToolFailed(name, ExcTool) ELSE ToolOutput(name)

\* worker.py:139  ToolMessage(content=str(toolResult), tool_call_id=toolCallId)
ToolTurn(result, call) == ToolMessage(result, call.id)

\* worker.py:108-115: bind the tools, copy the history, append the user turn.
RunAgentsBegin(j) ==
    /\ pc[j] = "agents_begin"
    /\ bindCalls' = [bindCalls EXCEPT ![j] = @ + 1]
    /\ \/ ExceptClause(j, "bind_tools", ExcBind)
          /\ UNCHANGED loopVars
       \/ LET userMessage == HumanMessage(prompt[j])
          IN  /\ messages' = [messages EXCEPT ![j] = Append(history, userMessage)]
              /\ newMessages' = [newMessages EXCEPT ![j] = <<userMessage>>]
              /\ hist0' = [hist0 EXCEPT ![j] = history]
              /\ pc' = [pc EXCEPT ![j] = AfterIteration(0)]
              /\ UNCHANGED <<signals, exc, round, pending, invocations, invoked, saveIdx>>
    /\ UNCHANGED <<uiVars, chunks, retrieved, pdfContext, workVars, prompt, ragContext,
                   content, history, runnableCalls>>

\* worker.py:117-124: one model invocation; a turn without tool calls ends the loop.
LlmInvoke(j) ==
    /\ pc[j] = "agents_invoke"
    /\ \/ /\ ExceptClause(j, "llm", ExcLLM)
          /\ invocations' = [invocations EXCEPT ![j] = @ + 1]
          /\ UNCHANGED <<messages, newMessages, round, pending, invoked, saveIdx, hist0>>
       \/ \E toolCalls \in (IF env[j].scripted THEN ScriptedReplies(j, round[j])
                                               ELSE ModelReplies(round[j])) :
            LET aiMessage == AIMessage(IF Len(toolCalls) = 0 THEN Answer ELSE << >>,
                                       toolCalls)
            IN  /\ invocations' = [invocations EXCEPT ![j] = @ + 1]
                /\ messages' = [messages EXCEPT ![j] = Append(@, aiMessage)]
                /\ newMessages' = [newMessages EXCEPT ![j] = Append(@, aiMessage)]
                /\ pending' = [pending EXCEPT ![j] = toolCalls]
                /\ pc' = [pc EXCEPT ![j] =
                      IF Len(toolCalls) = 0 THEN "agents_save" ELSE "agents_tools"]
                /\ UNCHANGED <<signals, exc, round, invoked, saveIdx, hist0>>
    /\ UNCHANGED <<uiVars, callVars, chunks, retrieved, pdfContext, workVars, prompt, ragContext,
                   content, history>>

\* worker.py:125-141: one tool call of the current assistant turn. The KeyError of
\* toolMap[name] is not caught in runAgents and reaches the except clause of run().
ToolCallStep(j) ==
    /\ pc[j] = "agents_tools"
    /\ Len(pending[j]) > 0
    /\ LET toolCall == NextToolCall(pending[j])
           name == toolCall.name
           toolMap == ToolMap(objects[j].agentTools.tools)
           rest == SelectSeq(pending[j], LAMBDA c : c # toolCall)
       IN  IF ~ToolMapHas(toolMap, name)
           THEN /\ ExceptClause(j, "toolLookup", KeyErrorText(name))
                /\ UNCHANGED loopVars
           ELSE LET toolResult == ToolResultOf(name, env[j].failingTools)
                    toolMessage == ToolTurn(toolResult, toolCall)
                IN  /\ messages' = [messages EXCEPT ![j] = Append(@, toolMessage)]
                    /\ newMessages' = [newMessages EXCEPT ![j] = Append(@, toolMessage)]
                    /\ invoked' = [invoked EXCEPT ![j] = Append(@, toolCall.id)]
                    /\ pending' = [pending EXCEPT ![j] = rest]
                    /\ IF Len(rest) = 0
                       THEN /\ round' = [round EXCEPT ![j] = @ + 1]
                            /\ pc' = [pc EXCEPT ![j] = AfterIteration(round[j] + 1)]
                       ELSE UNCHANGED <<round, pc>>
                    /\ UNCHANGED <<signals, exc, invocations, saveIdx, hist0>>
    /\ UNCHANGED <<uiVars, callVars, chunks, retrieved, pdfContext, workVars, prompt, ragContext,
                   content, history>>

\* Mutant of HistoryUpdated: the history is never written back.
HistoryNeverUpdated == FALSE

\* worker.py:143  if history and hasattr(history, 'add_message'): the history is
\* the InMemoryChatMessageHistory of llmProcessor.py:26, an object with add_message
\* and with neither __bool__ nor __len__, so it is true also when it holds no message.
HistoryUpdated == TRUE

\* Mutant of HistoryAfterAdd: the turn is put in front of the history.
HistoryAfterInsert(h, msg, raises) == IF raises THEN h ELSE <<msg>> \o h

\* worker.py:145-148  history.add_message(msg) inside try/except: the turn is
\* appended; a raising add_message leaves the history as it is.
HistoryAfterAdd(h, msg, raises) == IF raises THEN h ELSE Append(h, msg)

\* worker.py:143-148: one add_message of the loop over newMessages; a raising
\* add_message is swallowed.
SaveHistory(j) ==
    /\ pc[j] = "agents_save"
    /\ HistoryUpdated
    /\ saveIdx[j] < Len(TurnsToSave(j))
    /\ history' = HistoryAfterAdd(history, TurnsToSave(j)[saveIdx[j] + 1],
                                   env[j].addRaises)
    /\ saveIdx' = [saveIdx EXCEPT ![j] = @ + 1]
    /\ UNCHANGED <<uiVars, callVars, chunks, retrieved, pdfContext, workVars, pc, signals, exc,
                   prompt, ragContext, messages, newMessages,
                   round, pending, invocations, invoked, hist0, content>>

\* Mutant of LastContent: the content of the last assistant turn is returned.
LastAssistantContent(m) ==
    LET ai == {k \in 1..Len(m) : m[k].type = "ai"}
    IN  m[CHOOSE k \in ai : \A l \in ai : l <= k].content

\* worker.py:149  content = messages[-1].content
LastContent(m) == m[Len(m)].content

\* worker.py:149-150 and 60: the content of the last message is returned to run().
RunAgentsReturn(j) ==
    /\ pc[j] = "agents_save"
    /\ HistoryUpdated => saveIdx[j] = Len(TurnsToSave(j))
    /\ content' = [content EXCEPT ![j] = LastContent(messages[j])]
    /\ pc' = [pc EXCEPT ![j] = "chat_emit"]
    /\ UNCHANGED <<uiVars, callVars, chunks, retrieved, pdfContext, workVars, signals, exc, prompt,
                   ragContext, loopVars, history>>

\* ------------------------------------------------------------ specification

WorkerStep(j) ==
    \/ CreateWorker(j)
    \/ RunDispatch(j)
    \/ UnknownWorkType(j)
    \/ TranscribeAudio(j)
    \/ IngestRAG(j)
    \/ TextToSpeech(j)
    \/ ChatReadWork(j)
    \/ ChatRag(j)
    \/ ChatPdf(j)
    \/ ChatChoosePath(j)
    \/ ChatInvoke(j)
    \/ ChatEmit(j)
    \/ RunAgentsBegin(j)
    \/ LlmInvoke(j)
    \/ ToolCallStep(j)
    \/ SaveHistory(j)
    \/ RunAgentsReturn(j)

\* One worker, constructed once and run to its end.
Next == WorkerStep(SoloWorker)

Spec == Init /\ [][Next]_vars

\* Two chat jobs with tools on the one history, each handed the full work
\* dictionary of a chat request of its own exchange and a scripted model.
PairWork(j) ==
    [keys |-> KeysRead("chatAPI") \cup {"senderID"},
     senderID |-> IF j = "w1" THEN "ex1" ELSE "ex2",
     prompt |-> IF j = "w1" THEN <<"Summarize:">> ELSE <<"Translate:">>,
     selectedText |-> <<"selected text">>,
     pdfFilePath |-> "",
     ragRunnable |-> "None",
     agentTools |-> GetAgentTools(TRUE, FALSE),
     bindTools |-> TRUE]

PairEnv == [failingTools |-> {}, addRaises |-> FALSE, scripted |-> TRUE]

\* main.py:217-229: a Worker for a chat request with tools, in a thread of its own.
CreatePairWorker(j) ==
    /\ pc[j] = "absent"
    /\ Construct(j, "chatAPI", PairWork(j), PairEnv)
    /\ UNCHANGED <<uiVars, callVars, chunks, retrieved, pdfContext, signals, exc, prompt,
                   ragContext, loopVars, content, history>>

PairStep(j) ==
    \/ CreatePairWorker(j)
    \/ RunDispatch(j)
    \/ ChatReadWork(j)
    \/ ChatRag(j)
    \/ ChatPdf(j)
    \/ ChatChoosePath(j)
    \/ RunAgentsBegin(j)
    \/ LlmInvoke(j)
    \/ ToolCallStep(j)
    \/ SaveHistory(j)
    \/ RunAgentsReturn(j)
    \/ ChatEmit(j)

\* The threads of the two workers run side by side: any interleaving of their steps.
NextPair == \E j \in Workers : PairStep(j)

SpecPair == Init /\ [][NextPair]_vars

\* ------------------------------------------------------------ LLMProcessor

\* The services of the configuration as createClientFromConfig reads them: the
\* type, the API key (empty or None: "") and whether the entry has a 'model' key
\* (the entry of DEFAULT_CONFIGURATION, configManager.py:39-46, has none and no key).
ServiceTypes == {"openAI", "Gemini", "azure"}
ServiceConfigs ==
    {[type |-> t, api |-> "sk-key", hasModel |-> TRUE] : t \in ServiceTypes}
        \cup {[type |-> "openAI", api |-> "", hasModel |-> TRUE],
              [type |-> "openAI", api |-> "sk-key", hasModel |-> FALSE],
              [type |-> "openAI", api |-> "", hasModel |-> FALSE]}

\* What getPromptByName returns (configManager.py:133-139): the 'attachment' of the
\* prompt of that name, "absent" for a prompt without the key such as the default.
Attachments == {"selection", "table", "absent"}

NoError == [type |-> "none", msg |-> << >>]
ExcApiKey == <<"API key not configured for the service">>
ExcServiceType(t) == <<"Unknown service type '", t, "'">>
ExcAttachment(a) == <<"Unknown attachment type '", a, "' for prompt">>
ExcInfoType(info) == <<"Invalid info type '", info, "' requested">>

\* Mutant of CreateClientFromConfig: a client is built whatever the key and type.
CreateClientUnchecked(service) == NoError

\* llmProcessor.py:32-49: the exception createClientFromConfig raises, NoError
\* when it returns a client.
CreateClientFromConfig(service) ==
    IF ~service.hasModel THEN [type |-> "KeyError", msg |-> KeyErrorText("model")]
    ELSE IF service.api = "" THEN [type |-> "ValueError", msg |-> ExcApiKey]
    ELSE IF service.type \in {"openAI", "Gemini"} THEN NoError
    ELSE [type |-> "ValueError", msg |-> ExcServiceType(service.type)]

\* llmProcessor.py:90-130: the exception processPrompt raises, NoError when it
\* returns the work dictionary. The client is constructed first (line 93).
ProcessPrompt(service, attachment) ==
    IF CreateClientFromConfig(service) # NoError THEN CreateClientFromConfig(service)
    ELSE IF attachment = "absent"
    THEN [type |-> "KeyError", msg |-> KeyErrorText("attachment")]
    ELSE IF attachment \in {"selection", "pdf", "inquiry"} THEN NoError
    ELSE [type |-> "ValueError", msg |-> ExcAttachment(attachment)]

\* llmProcessor.py:93-105: LLMProcessor.runnable after processPrompt, r before it.
\* Once the client is built (line 93) and the prompt's attachment is read (line
\* 100), the runnable is created for this client if there is none yet, else kept.
RunnableAfterPrompt(r, service, attachment) ==
    IF CreateClientFromConfig(service) = NoError /\ attachment # "absent" /\ r = NoRunnable
    THEN service.type
    ELSE r

\* The work dictionary of a chat job launched from exchange e. llmProcessor.py:115
\* builds it with runnable, prompt and senderID; Worker.run reads the keys of
\* KeysRead("chatAPI"). Both dictionaries are enumerated. Retrieval and tools are
\* switched off (Exchange.ragUsage, Agents.useAgents: False).
ChatLaunchWork(e, attachment, selectedText) ==
    [keys : {{"runnable", "prompt", "senderID"}, KeysRead("chatAPI") \cup {"senderID"}},
     senderID : {e},
     prompt : {<<"Summarize:">>},
     selectedText : {selectedText},
     pdfFilePath : {IF attachment = "pdf" THEN "paper.pdf" ELSE ""},
     ragRunnable : {"None"},
     agentTools : {GetAgentTools(FALSE, FALSE)},
     bindTools : {FALSE}]

\* The work dictionary of a job that is no chat job, with the keys its caller gives.
LaunchWork(keys, senderID) ==
    [keys |-> keys, senderID |-> senderID, prompt |-> << >>, selectedText |-> << >>,
     pdfFilePath |-> "", ragRunnable |-> "None",
     agentTools |-> GetAgentTools(FALSE, FALSE), bindTools |-> FALSE]

Whitespace == {" ", "\n", "\n\n", "\t"}
\* The piece "[fence]" stands for the three backquotes of a code fence.
Fence == "[fence]"

\* str.strip() on a sequence of pieces
RECURSIVE Strip(_)
Strip(t) ==
    IF Len(t) = 0 THEN t
    ELSE IF t[1] \in Whitespace THEN Strip(Tail(t))
    ELSE IF t[Len(t)] \in Whitespace THEN Strip(SubSeq(t, 1, Len(t) - 1))
    ELSE t

\* content.split('\n', 1)[-1]: what follows the first newline, all of it if none
AfterFirstNewline(t) ==
    LET nl == {i \in 1..Len(t) : t[i] \in {"\n", "\n\n"}}
    IN  IF nl = {} THEN t
        ELSE SubSeq(t, (CHOOSE i \in nl : \A k \in nl : i <= k) + 1, Len(t))

\* llmProcessor.py:154-169
ProcessLLMResponse(text) ==
    LET stripped == Strip(text)
        noEnd == IF Len(stripped) > 0 /\ stripped[Len(stripped)] = Fence
                 THEN Strip(SubSeq(stripped, 1, Len(stripped) - 1))
                 ELSE stripped
    IN  IF Len(noEnd) > 0 /\ noEnd[1] = Fence
        THEN Strip(AfterFirstNewline(noEnd))
        ELSE noEnd

\* The information types ConfigurationManager.get accepts (configManager.py:103).
ConfigInfos == {"services", "service", "model", "parameter", "dictionary", "startCounts",
                "profiles", "prompts", "system-prompt"}

\* Largest number of setSystemPrompt calls followed per prompt name.
MaxPromptCalls == 2

\* llmProcessor.py:52-68. The list of system prompts is asked for as
\* 'system-prompts' (line 58), which ConfigurationManager.get rejects with
\* ValueError (configManager.py:103-104); lines 59-68 append the system turn found
\* and set systemPromptInjected, without reading it.
SetSystemPrompt(name) ==
    /\ promptCalls[name] < MaxPromptCalls
    /\ promptCalls' = [promptCalls EXCEPT ![name] = @ + 1]
    /\ IF "system-prompts" \notin ConfigInfos
       THEN /\ uiException' = [src |-> "configManager.get",
                               type |-> "ValueError", msg |-> ExcInfoType("system-prompts")]
            /\ UNCHANGED <<history, systemPromptInjected>>
       ELSE /\ history' = Append(history, SystemMessage(DefaultSystemPrompt))
            /\ systemPromptInjected' = TRUE
            /\ UNCHANGED uiException
    /\ UNCHANGED <<pc, workVars, signals, exc, prompt, ragContext, loopVars, content,
                   retrieved, pdfContext, chunks, callVars, activeThreads, activeWorkers,
                   threadState, handled, origin, exchanges, llmVars, configVars>>

\* ------------------------------------------------------------ Wallo and Exchange

\* What a handler of the UI leaves alone in the workers it does not start.
runVars == <<signals, exc, prompt, ragContext, loopVars, content, history, retrieved,
             pdfContext, chunks, callVars>>

\* Mutant of Remove: the entry at the end of the list is dropped.
RemoveLast(seq, x) == SubSeq(seq, 1, Len(seq) - 1)

\* main.py:234-237  list.remove(x) of an entry that occurs once.
Remove(seq, x) == SelectSeq(seq, LAMBDA y : y # x)

\* main.py:217-219: the QThread runWorker creates for worker j.
ThreadOf(j) == IF j = "w1" THEN "t1" ELSE "t2"

\* The Worker the next call of runWorker constructs.
NextWorker == IF pc["w1"] = "absent" THEN "w1" ELSE "w2"

\* main.py:210-229 runWorker, called for exchange e ("main": the main window).
\* Worker(workType, work) raises KeyError out of runWorker when work has no
\* senderID; else thread and worker are appended and the thread is started.
RunWorker(j, e, wt, work) ==
    /\ j = NextWorker
    /\ pc[j] = "absent"
    /\ Construct(j, wt, work, NoEnv)
    /\ IF "senderID" \notin work.keys
       THEN /\ uiException' = [src |-> "runWorker",
                               type |-> "KeyError", msg |-> KeyErrorText("senderID")]
            /\ UNCHANGED <<activeThreads, activeWorkers, threadState, origin>>
       ELSE /\ activeThreads' = Append(activeThreads, ThreadOf(j))
            /\ activeWorkers' = Append(activeWorkers, j)
            /\ threadState' = [threadState EXCEPT ![j] = "running"]
            /\ origin' = [origin EXCEPT ![j] = e]
            /\ UNCHANGED uiException
    /\ UNCHANGED <<runVars, handled, promptCalls, systemPromptInjected, configVars>>

\* exchange.py:332-339 and 368-375: the overlay is shown, processPrompt builds the
\* work dictionary or raises, and runWorker is called with what it returned. The
\* user's launches are followed while a Worker of Workers is left to construct.
LaunchChat(e, service, attachment) ==
    /\ pc[NextWorker] = "absent"
    /\ Len(Strip(exchanges[e].text1)) > 0
    /\ exchanges' = [exchanges EXCEPT ![e].busy = TRUE]
    /\ runnable' = RunnableAfterPrompt(runnable, service, attachment)
    /\ IF ProcessPrompt(service, attachment) # NoError
       THEN /\ uiException' = [src |-> "processPrompt",
                               type |-> ProcessPrompt(service, attachment).type,
                               msg |-> ProcessPrompt(service, attachment).msg]
            /\ UNCHANGED <<pc, workVars, runVars, activeThreads, activeWorkers,
                           threadState, handled, origin, promptCalls,
                           systemPromptInjected, jobRunnable, configVars>>
       ELSE /\ jobRunnable' = [jobRunnable EXCEPT ![NextWorker] =
                                  [service |-> service.type, client |-> runnable']]
            /\ \E j \in Workers :
                 \E work \in ChatLaunchWork(e, attachment, exchanges[e].text1) :
                   RunWorker(j, e, "chatAPI", work)

\* exchange.py:319-340
ChatExchange(e) ==
    \E service \in ServiceConfigs, attachment \in Attachments :
        LaunchChat(e, service, attachment)

\* exchange.py:344-375
UseLLM(e) ==
    \E service \in ServiceConfigs, attachment \in Attachments :
        LaunchChat(e, service, attachment)

\* exchange.py:193-203: the click that ends a recording.
Audio1(e) ==
    /\ exchanges' = [exchanges EXCEPT ![e].busy = TRUE]
    /\ \E j \in Workers :
         RunWorker(j, e, "transcribeAudio",
                   LaunchWork({"runnable", "senderID", "path"}, e))
    /\ UNCHANGED llmVars

\* main.py:287-296: the work dictionary has runnable and filePaths, no senderID.
AddRagSources ==
    /\ \E j \in Workers :
         RunWorker(j, "main", "ingestRAG",
                   LaunchWork({"runnable", "filePaths"}, ""))
    /\ UNCHANGED <<exchanges, llmVars>>

\* main.py:202-207
SaveToFile ==
    /\ \E j \in Workers :
         RunWorker(j, "main", "tts",
                   LaunchWork({"apiKey", "filePaths", "content", "senderID"}, "tts"))
    /\ UNCHANGED <<exchanges, llmVars>>

\* Mutant of SetReply: the reply is taken over without comparing the senderID.
SetReplyUnguarded(x, uuid, text, senderID, worktype) ==
    IF worktype = "chatAPI"
    THEN [x EXCEPT !.busy = FALSE, !.text2 = text]
    ELSE [x EXCEPT !.busy = FALSE, !.text1 = @ \o <<"\n">> \o text]

\* exchange.py:378-393: the exchange x with uuid after setReply.
SetReply(x, uuid, text, senderID, worktype) ==
    IF senderID = uuid
    THEN IF worktype = "chatAPI"
         THEN [x EXCEPT !.busy = FALSE, !.text2 = text]
         ELSE [x EXCEPT !.busy = FALSE, !.text1 = @ \o <<"\n">> \o text]
    ELSE x

\* The signal worker j emitted and the main window has not handled yet.
Unhandled(j, kind) ==
    /\ ~handled[j]
    /\ Len(signals[j]) > 0
    /\ signals[j][1].signal = kind

\* main.py:240-250, queued by worker.finished (main.py:221)
OnWorkerFinished(j) ==
    /\ Unhandled(j, "finished")
    /\ LET sig == signals[j][1]
           processContent == ProcessLLMResponse(sig.text)
       IN  exchanges' = [e \in Exchanges |->
               SetReply(exchanges[e], e, processContent, sig.senderID, sig.workType)]
    /\ handled' = [handled EXCEPT ![j] = TRUE]
    /\ UNCHANGED <<pc, workVars, runVars, activeThreads, activeWorkers, threadState,
                   origin, uiException, promptCalls, systemPromptInjected, llmVars,
                   configVars>>

\* main.py:253-260, queued by worker.error (main.py:222): a message box.
OnWorkerError(j) ==
    /\ Unhandled(j, "error")
    /\ handled' = [handled EXCEPT ![j] = TRUE]
    /\ UNCHANGED <<pc, workVars, runVars, activeThreads, activeWorkers, threadState,
                   origin, exchanges, uiException, promptCalls, systemPromptInjected,
                   llmVars, configVars>>

\* main.py:223,225,232-237: worker.finished is connected to thread.quit after
\* onWorkerFinished; the thread leaves its event loop once run() has returned and
\* emits finished, which calls _onThreadFinished. worker.error is connected to
\* onWorkerError only.
OnThreadFinished(j) ==
    /\ threadState[j] = "running"
    /\ pc[j] = "returned"
    /\ handled[j]
    /\ Len(signals[j]) > 0
    /\ signals[j][1].signal = "finished"
    /\ threadState' = [threadState EXCEPT ![j] = "finished"]
    /\ activeThreads' = Remove(activeThreads, ThreadOf(j))
    /\ activeWorkers' = Remove(activeWorkers, j)
    /\ UNCHANGED <<pc, workVars, runVars, handled, origin, exchanges, uiException,
                   promptCalls, systemPromptInjected, llmVars, configVars>>

\* The steps of run() a job launched by the handlers above can take.
WorkerRun(j) ==
    \/ RunDispatch(j)
    \/ TranscribeAudio(j)
    \/ TextToSpeech(j)
    \/ ChatReadWork(j)
    \/ ChatRag(j)
    \/ ChatPdf(j)
    \/ ChatChoosePath(j)
    \/ ChatInvoke(j)
    \/ ChatEmit(j)

\* The steps the program takes for job j without the user.
JobStep(j) ==
    \/ WorkerRun(j)
    \/ OnWorkerFinished(j)
    \/ OnWorkerError(j)
    \/ OnThreadFinished(j)

NextUI ==
    \/ \E e \in Exchanges : ChatExchange(e)
    \/ \E e \in Exchanges : UseLLM(e)
    \/ \E e \in Exchanges : Audio1(e)
    \/ AddRagSources
    \/ SaveToFile
    \/ \E j \in Workers : JobStep(j)

\* llmProcessor.py:26: the history of the main window's LLMProcessor starts empty.
InitUI == Init /\ history = << >>

\* The main window with its exchanges: up to two jobs in flight at once.
SpecUI == InitUI /\ [][NextUI]_vars

\* ------------------------------------------------------------ ConfigurationManager

\* Largest number of profile entries followed.
MaxProfiles == 2

\* configManager.py:88-99 validateConfig with the schema file in place: the
\* configuration validates when each of its profile entries conforms.
ValidateConfig(profiles) == \A i \in 1..Len(profiles) : profiles[i].valid

\* configManager.py:164-171: the profile named target is replaced by profile, the
\* first one of that name; without such a profile, profile is appended.
Upserted(profiles, profile, target) ==
    IF \E i \in 1..Len(profiles) : profiles[i].name = target
    THEN LET idx == CHOOSE i \in 1..Len(profiles) :
                        /\ profiles[i].name = target
                        /\ \A k \in 1..(i - 1) : profiles[k].name # target
         IN  [profiles EXCEPT ![idx] = profile]
    ELSE Append(profiles, profile)

\* configManager.py:192-196 updateConfig({'profiles': profiles}): the update is
\* put into _config, validated, and saved when validateConfig did not raise.
UpdateConfig(profiles) ==
    /\ config' = profiles
    /\ IF ValidateConfig(profiles)
       THEN /\ configFile' = profiles
            /\ UNCHANGED uiException
       ELSE /\ uiException' = [src |-> "validateConfig", type |-> "ValueError",
                               msg |-> <<"Configuration validation error">>]
            /\ UNCHANGED configFile

\* What the configuration dialog leaves alone.
nonConfigVars == <<pc, workVars, runVars, activeThreads, activeWorkers, threadState,
                   handled, origin, exchanges, promptCalls, systemPromptInjected,
                   llmVars>>

\* configManager.py:162-174 upsertProfile(profile, original_name); originalName is
\* "" for None, else the name of a profile of the list as in configTabProfile.py:227.
\* _currentProfile is set before updateConfig is called.
UpsertProfile(profile, originalName) ==
    LET target == IF originalName # "" THEN originalName ELSE profile.name
        profiles == Upserted(config, profile, target)
    IN  /\ originalName = "" \/ \E i \in 1..Len(config) : config[i].name = originalName
        /\ Len(profiles) <= MaxProfiles
        /\ currentProfile' = profile.name
        /\ UpdateConfig(profiles)
        /\ UNCHANGED nonConfigVars

\* configManager.py:176-182 removeProfile(name)
RemoveProfile(name) ==
    LET profiles == SelectSeq(config, LAMBDA profile : profile.name # name)
    IN  /\ currentProfile' = IF currentProfile = name
                             THEN (IF profiles # << >> THEN profiles[1].name ELSE "")
                             ELSE currentProfile
        /\ UpdateConfig(profiles)
        /\ UNCHANGED nonConfigVars

\* The profile tab of the configuration dialog (configTabProfile.py:188-267): a
\* profile is saved under its own name or under the name of an existing one, or
\* a profile is deleted; and the system prompt of a profile is handed to the
\* LLMProcessor.
NextConfig ==
    \/ \E profile \in Profiles, originalName \in {""} \cup ProfileNames :
         UpsertProfile(profile, originalName)
    \/ \E name \in ProfileNames : RemoveProfile(name)
    \/ \E name \in PromptNames : SetSystemPrompt(name)

SpecConfig == Init /\ [][NextConfig]_vars

\* ------------------------------------------------------------ properties

ErrorSignal(j, text) ==
    [signal |-> "error", text |-> text,
     senderID |-> objects[j].senderID, workType |-> workType[j]]

\* The turns of worker j's runAgents call inside its working list.
NewTurnIndexes(j) == (Len(hist0[j]) + 1)..Len(messages[j])
TurnsOfType(j, type) == {k \in NewTurnIndexes(j) : messages[j][k].type = type}

\* runAgents of worker j was entered and has returned to run().
RunAgentsReturned(j) ==
    /\ UsesAgents(objects[j])
    /\ pc[j] = "chat_emit" \/ (pc[j] = "returned" /\ exc[j] = NoExc)

\* C1: every run() that returns has emitted exactly one terminal signal, finished
\* or error, whatever the work type.
C1_ExactlyOneSignal ==
    \A j \in Workers : pc[j] = "returned" => Len(signals[j]) = 1

\* C2: an exception raised inside a handler of run() is caught in run(): run()
\* returns, the only signal emitted is error with str(exception), the worker's
\* senderID and its workType, and the exception never leaves run().
C2_ExceptionCaught ==
    \A j \in Workers :
        /\ pc[j] # "escaped"
        /\ exc[j] # NoExc =>
             /\ pc[j] = "returned"
             /\ signals[j] = <<ErrorSignal(j, exc[j].msg)>>

C2_Witness ==
    \E j \in Workers :
        /\ pc[j] = "returned"
        /\ exc[j] = [src |-> "llm", msg |-> ExcLLM]
        /\ invocations[j] = 3

\* C3: for a work type that is none of the recognised kinds run() emits error with
\* the reason 'Unknown work type', the senderID and the workType, emits no finished
\* signal and raises nothing.
C3_UnknownWorkType ==
    \A j \in Workers :
        (pc[j] = "returned" /\ workType[j] \notin KnownWorkTypes) =>
            /\ signals[j] = <<[signal |-> "error", text |-> <<"Unknown work type">>,
                               senderID |-> objects[j].senderID,
                               workType |-> workType[j]]>>
            /\ exc[j] = NoExc

C3_Witness ==
    \E j \in Workers : pc[j] = "returned" /\ workType[j] = "pdfExtraction"

\* C4: one runAgents call makes at most 6 model invocations; no 7th round is
\* started, however many tool calls the assistant turns request.
C4_AtMostSixInvocations ==
    \A j \in Workers :
        /\ invocations[j] <= 6
        /\ pc[j] = "agents_invoke" => invocations[j] < 6
        /\ Cardinality(TurnsOfType(j, "ai")) <= 6

C4_Witness ==
    \E j \in Workers :
        /\ invocations[j] = 6
        /\ RunAgentsReturned(j)
        /\ \A k \in TurnsOfType(j, "ai") : Len(messages[j][k].tool_calls) = MaxCalls

\* The tool calls of the assistant turn at k are answered right after it, one
\* tool-result turn per call, in the order of the calls, each with its call's id.
AnsweredInOrder(m, k) ==
    LET calls == m[k].tool_calls
    IN  /\ k + Len(calls) <= Len(m)
        /\ \A i \in 1..Len(calls) :
               /\ m[k + i].type = "tool"
               /\ m[k + i].tool_call_id = calls[i].id
        /\ k + Len(calls) < Len(m) => m[k + Len(calls) + 1].type = "ai"

\* The ids of all tool calls of the assistant turns of m from index k on, in order.
RECURSIVE CallIdsFrom(_, _)
CallIdsFrom(m, k) ==
    IF k > Len(m) THEN << >>
    ELSE [i \in 1..Len(m[k].tool_calls) |-> m[k].tool_calls[i].id] \o CallIdsFrom(m, k + 1)

\* C5: whenever the model invocation of the next round starts, every assistant turn
\* of this call is directly followed by exactly one tool-result turn per tool call,
\* in the order of the calls and tagged with their ids, and the tools were invoked
\* one at a time in that order.
C5_ToolResultsBeforeNextRound ==
    \A j \in Workers :
        (pc[j] = "agents_invoke" /\ invocations[j] >= 1) =>
            /\ \A k \in TurnsOfType(j, "ai") : AnsweredInOrder(messages[j], k)
            /\ messages[j][Len(messages[j])].type = "tool"
            /\ invoked[j] = CallIdsFrom(messages[j], Len(hist0[j]) + 1)

C5_Witness ==
    \E j \in Workers :
        /\ pc[j] = "agents_invoke"
        /\ invocations[j] = 2
        /\ \A k \in TurnsOfType(j, "ai") : Len(messages[j][k].tool_calls) = 2

\* Worker j takes a step of its tool-call loop on the tool call at the head of
\* its pending calls.
ToolStepOf(j) ==
    /\ pc[j] = "agents_tools"
    /\ Len(pending[j]) > 0
    /\ <<pc[j], messages[j]>>' # <<pc[j], messages[j]>>

\* The loop goes on after the step: to the next tool call, the next round or, after
\* the last round, to the update of the history.
LoopGoesOn(j) ==
    /\ signals'[j] = signals[j]
    /\ exc'[j] = NoExc
    /\ pc'[j] = IF Len(pending[j]) > 1 THEN "agents_tools"
                ELSE IF round[j] + 1 < 6 THEN "agents_invoke" ELSE "agents_save"

\* C6: a tool call naming a tool that is not in the tool map yields the tool-result
\* turn "Tool '<name>' is not available.", raises nothing, and the loop goes on.
C6_AbsentToolAnswered ==
    [][\A j \in Workers :
         (ToolStepOf(j)
          /\ \A i \in 1..Len(objects[j].agentTools.tools) :
                 objects[j].agentTools.tools[i] # pending[j][1].name) =>
             /\ messages'[j] = Append(messages[j],
                   ToolMessage(<<"Tool '", pending[j][1].name, "' is not available.">>,
                               pending[j][1].id))
             /\ LoopGoesOn(j)]_vars

\* C7: a registered tool that raises yields the tool-result turn
\* "Tool '<name>' failed: <message>", the exception does not leave runAgents, and
\* the loop goes on with the remaining tool calls and rounds.
C7_ToolFailureContained ==
    [][\A j \in Workers :
         (ToolStepOf(j)
          /\ pending[j][1].name \in env[j].failingTools
          /\ \E i \in 1..Len(objects[j].agentTools.tools) :
                 objects[j].agentTools.tools[i] = pending[j][1].name) =>
             /\ messages'[j] = Append(messages[j],
                   ToolMessage(<<"Tool '", pending[j][1].name, "' failed: ">> \o ExcTool,
                               pending[j][1].id))
             /\ LoopGoesOn(j)]_vars

C7_Witness ==
    \E j \in Workers :
        /\ pc[j] = "agents_invoke"
        /\ \E k \in TurnsOfType(j, "tool") :
               messages[j][k].content = <<"Tool '", "websearch", "' failed: ", "tool error">>
        /\ \E k \in TurnsOfType(j, "tool") :
               messages[j][k].content = ToolOutput(SqliteQueryTool)

\* C8: in a chat job that runs the tool loop, only a failing model invocation ends
\* the job with an error signal; an absent tool or a raising tool never does.
C8_OnlyModelFailureFails ==
    \A j \in Workers :
        (invocations[j] >= 1 /\ \E i \in 1..Len(signals[j]) : signals[j][i].signal = "error")
            => exc[j].src = "llm"

\* C9: if the model returns every time and every assistant turn requests a tool
\* call, runAgents makes exactly 6 model invocations and returns without raising,
\* its working list holding 6 assistant turns and at least 6 tool-result turns.
C9_SixRounds ==
    \A j \in Workers :
        (/\ invocations[j] >= 1
         /\ pc[j] \in {"chat_emit", "returned"}
         /\ exc[j].src # "llm"
         /\ \A k \in TurnsOfType(j, "ai") : Len(messages[j][k].tool_calls) > 0) =>
            /\ exc[j] = NoExc
            /\ invocations[j] = 6
            /\ Cardinality(TurnsOfType(j, "ai")) = 6
            /\ Cardinality(TurnsOfType(j, "tool")) >= 6

\* C10: when runAgents has returned and no add_message failed, the history is its
\* content from before the call, then the user turn, then the assistant and
\* tool-result turns of the call in the order produced: the final working list.
C10_HistoryEqualsWorkingList ==
    \A j \in Workers :
        (RunAgentsReturned(j) /\ ~env[j].addRaises) =>
            /\ history = hist0[j] \o newMessages[j]
            /\ history = messages[j]
            /\ newMessages[j][1] = HumanMessage(prompt[j])
            /\ \A i \in 2..Len(newMessages[j]) : newMessages[j][i].type \in {"ai", "tool"}

C10_Witness ==
    \E j \in Workers :
        /\ RunAgentsReturned(j)
        /\ ~env[j].addRaises
        /\ Len(hist0[j]) > 0
        /\ invocations[j] = 6
        /\ Cardinality(TurnsOfType(j, "tool")) > 6

\* The snippets joined by a blank line, in their order, between the two rulers.
ExpectedContextBlock(snippets) ==
    <<"\n\n", "Context:", "\n", "---", "\n">>
        \o [i \in 1..(2 * Len(snippets) - 1) |->
               IF i % 2 = 1 THEN snippets[(i + 1) \div 2] ELSE "\n\n"]
        \o <<"\n", "---", "\n">>

ContextHeadings(p) == {i \in 1..Len(p) : p[i] = "Context:"}

\* The finished signal of worker j carrying text.
FinishedSignal(j, text) ==
    [signal |-> "finished", text |-> text,
     senderID |-> objects[j].senderID, workType |-> workType[j]]

\* C11: runAgents returns the content of the last turn of its working list: the
\* final assistant turn's content when the loop ended on a turn without tool calls,
\* the content of the last tool-result turn of round 6 when the round limit was
\* used up; the chat job then ends with finished carrying that content, not error.
C11_ReturnsLastTurnContent ==
    \A j \in Workers :
        RunAgentsReturned(j) =>
            LET m == messages[j]
                last == m[Len(m)]
                ai == TurnsOfType(j, "ai")
                lastAi == m[CHOOSE k \in ai : \A l \in ai : l <= k]
            IN  /\ content[j] = last.content
                /\ last.type \in {"ai", "tool"}
                /\ last.type = "ai" =>
                     /\ last.tool_calls = NoCalls
                     /\ content[j] = <<"answer">>
                /\ last.type = "tool" =>
                     /\ Cardinality(ai) = 6
                     /\ invocations[j] = 6
                     /\ last.tool_call_id = lastAi.tool_calls[Len(lastAi.tool_calls)].id
                /\ pc[j] = "returned" => signals[j] = <<FinishedSignal(j, content[j])>>

C11_Witness ==
    \E j \in Workers :
        /\ RunAgentsReturned(j)
        /\ pc[j] = "returned"
        /\ invocations[j] = 6
        /\ messages[j][Len(messages[j])].type = "tool"
        /\ signals[j][1].text = <<"output of ", "sqliteQuery">>

\* C12: the assembled prompt contains a Context block exactly when ragRunnable is
\* not None and retrieve returned at least one snippet; the block is two newlines,
\* 'Context:', newline, '---', newline, the snippets joined by a blank line in
\* retrieval order, newline, '---', newline, and it stands before the selected text.
C12_ContextBlock ==
    \A j \in Workers :
        prompt[j] # << >> =>
            LET p == prompt[j]
                base == objects[j].prompt
                sel == objects[j].selectedText
                blk == ExpectedContextBlock(retrieved[j])
            IN  /\ ContextHeadings(p) # {} <=>
                     (objects[j].ragRunnable # "None" /\ Len(retrieved[j]) >= 1)
                /\ ContextHeadings(p) # {} =>
                     /\ Cardinality(ContextHeadings(p)) = 1
                     /\ SubSeq(p, Len(base) + 1, Len(base) + Len(blk)) = blk
                     /\ SubSeq(p, Len(p) - Len(sel) + 1, Len(p)) = sel
                     /\ Len(base) + Len(blk) <= Len(p) - Len(sel)

C12_Witness ==
    \E j \in Workers :
        /\ pc[j] = "returned"
        /\ exc[j] = NoExc
        /\ retrieved[j] = <<"alpha", "beta">>
        /\ ContextHeadings(prompt[j]) # {}

\* C13: the prompt handed to the model is the base prompt, then the retrieval
\* block or nothing, then the PDF context (the extracted text followed by a blank
\* line, present exactly when pdfFilePath is non-empty), then the selected text,
\* and nothing else.
C13_PromptAssembly ==
    \A j \in Workers :
        prompt[j] # << >> =>
            /\ pdfContext[j] # << >> <=> objects[j].pdfFilePath # ""
            /\ objects[j].pdfFilePath # "" =>
                 \E pdfText \in PdfTexts : pdfContext[j] = pdfText \o <<"\n\n">>
            /\ ragContext[j] \in {<< >>, ExpectedContextBlock(retrieved[j])}
            /\ prompt[j] = objects[j].prompt \o ragContext[j] \o pdfContext[j]
                               \o objects[j].selectedText

C13_Witness ==
    \E j \in Workers :
        /\ pc[j] = "chat_invoke"
        /\ ragContext[j] # << >>
        /\ pdfContext[j] # << >>
        /\ prompt[j] = <<"Summarize:", "\n\n", "Context:", "\n", "---", "\n", "alpha", "\n\n",
                         "beta", "\n", "---", "\n", "pdf text", "\n\n", "selected text">>

\* The number a sequence of decimal digits denotes.
RECURSIVE DigitsValue(_)
DigitsValue(d) ==
    IF Len(d) = 0 THEN 0
    ELSE 10 * DigitsValue(SubSeq(d, 1, Len(d) - 1))
         + (CHOOSE v \in 0..9 : DigitText[v + 1] = d[Len(d)])

\* C14: an ingestRAG job whose ingestion returns N emits exactly one signal,
\* finished with the content 'Success | Chunks indexed: N', the job's senderID and
\* the work type 'ingestRAG' (for N = 9: 'Success | Chunks indexed: 9'), no error.
C14_IngestReportsChunks ==
    \A j \in Workers :
        (workType[j] = "ingestRAG" /\ pc[j] = "returned" /\ exc[j] = NoExc) =>
            /\ Len(signals[j]) = 1
            /\ signals[j][1].signal = "finished"
            /\ signals[j][1].senderID = objects[j].senderID
            /\ signals[j][1].workType = "ingestRAG"
            /\ LET text == signals[j][1].text
                   digits == Tail(text)
               IN  /\ text[1] = "Success | Chunks indexed: "
                   /\ Len(digits) >= 1
                   /\ \A i \in 1..Len(digits) : \E v \in 0..9 : DigitText[v + 1] = digits[i]
                   /\ Len(digits) > 1 => digits[1] # "0"
                   /\ DigitsValue(digits) = chunks[j]
                   /\ chunks[j] = 9 => text = <<"Success | Chunks indexed: ", "9">>

C14_Witness ==
    \E j \in Workers :
        /\ workType[j] = "ingestRAG"
        /\ pc[j] = "returned"
        /\ chunks[j] = 9
        /\ signals[j] = <<FinishedSignal(j, <<"Success | Chunks indexed: ", "9">>)>>

InSeq(seq, x) == \E i \in 1..Len(seq) : seq[i] = x

\* C15: every job runWorker started is eventually removed from activeThreads and
\* from activeWorkers once it has emitted its outcome, after an error signal as
\* after a finished signal: when a job has emitted its outcome and the program has
\* no step left to take for it, the job is in neither list.
C15_RemovedAfterOutcome ==
    \A j \in Workers :
        (Len(signals[j]) > 0 /\ ~ENABLED JobStep(j)) =>
            ~InSeq(activeThreads, ThreadOf(j)) /\ ~InSeq(activeWorkers, j)

\* C16: with jobs of different exchanges in flight and their outcomes handled in
\* any order, a finished outcome carries the uuid of the exchange that launched
\* its job, and handling it changes that exchange only: its overlay is hidden and
\* the reply is placed; every other exchange keeps its overlay and its texts.
C16_ReplyOnlyToSender ==
    [][\A j \in Workers :
         (Unhandled(j, "finished") /\ handled'[j]) =>
             LET sig == signals[j][1]
             IN  /\ sig.senderID = origin[j]
                 /\ sig.senderID \in Exchanges
                 /\ \A e \in Exchanges \ {sig.senderID} : exchanges'[e] = exchanges[e]
                 /\ ~exchanges'[sig.senderID].busy
                 /\ IF sig.workType = "chatAPI"
                    THEN /\ exchanges'[sig.senderID].text2 = ProcessLLMResponse(sig.text)
                         /\ exchanges'[sig.senderID].text1 = exchanges[sig.senderID].text1
                    ELSE /\ exchanges'[sig.senderID].text1 =
                              exchanges[sig.senderID].text1 \o <<"\n">>
                                  \o ProcessLLMResponse(sig.text)
                         /\ exchanges'[sig.senderID].text2 = exchanges[sig.senderID].text2]_vars

C16_Witness ==
    /\ activeWorkers = <<"w1", "w2">>
    /\ origin["w1"] = "ex1" /\ origin["w2"] = "ex2"
    /\ signals["w1"] # << >> /\ signals["w1"][1].signal = "finished"
    /\ signals["w2"] # << >> /\ signals["w2"][1].signal = "finished"
    /\ handled["w2"] /\ ~handled["w1"]
    /\ ~exchanges["ex2"].busy /\ exchanges["ex2"].text2 = <<"answer">>
    /\ exchanges["ex1"].busy /\ exchanges["ex1"].text2 = << >>

\* C17: the busy overlay an exchange shows when it launches a job is hidden again
\* once that job's outcome is delivered, after a failure as after a success: the
\* step that delivers the outcome of a job leaves the overlay of the exchange that
\* launched it hidden.
C17_OverlayHiddenOnDelivery ==
    [][\A j \in Workers :
         (~handled[j] /\ handled'[j] /\ origin[j] \in Exchanges) =>
             ~exchanges'[origin[j]].busy]_vars

\* C18: for every job the UI launches through runWorker (chat, transcription, RAG
\* ingestion, text to speech), constructing and starting the Worker raises nothing
\* into the caller.
C18_NothingRaisedIntoCaller ==
    /\ uiException.src # "runWorker"
    /\ \A j \in Workers : pc[j] # "ctorRaised"

C20_SystemTurnOnce ==
    \A name \in PromptNames :
        promptCalls[name] >= 2 =>
            Cardinality({i \in 1..Len(history) :
                history[i] = SystemMessage(<<"You are a helpful assistant.">>)}) = 1

\* The loop of worker j's runAgents call is over without an exception.
LoopExited(j) == pc[j] = "agents_save" \/ RunAgentsReturned(j)

\* C22: an assistant turn without tool calls is the last thing the loop does: it
\* stays the last turn of the working list, no model invocation and no tool
\* invocation follows it; and when the loop is over its last turn is such a turn or
\* six rounds were completed.
C22_LoopStopsOnPlainTurn ==
    \A j \in Workers :
        /\ \A k \in TurnsOfType(j, "ai") :
               messages[j][k].tool_calls = NoCalls =>
                   /\ k = Len(messages[j])
                   /\ pc[j] \notin {"agents_invoke", "agents_tools"}
                   /\ invocations[j] = Cardinality(TurnsOfType(j, "ai"))
                   /\ Len(invoked[j]) = Cardinality(TurnsOfType(j, "tool"))
                   /\ invoked[j] = CallIdsFrom(messages[j], Len(hist0[j]) + 1)
        /\ LoopExited(j) =>
               \/ /\ messages[j][Len(messages[j])].type = "ai"
                  /\ messages[j][Len(messages[j])].tool_calls = NoCalls
               \/ round[j] = 6 /\ invocations[j] = 6

C22_Witness ==
    \E j \in Workers :
        /\ RunAgentsReturned(j)
        /\ invocations[j] = 3
        /\ messages[j][Len(messages[j])].tool_calls = NoCalls
        /\ Cardinality(TurnsOfType(j, "tool")) = 2 * MaxCalls

\* The five work kinds of a work request, by the names run() and the callers use.
FiveWorkKinds == {"chatAPI", "pdfExtraction", "transcribeAudio", "ingestRAG", "tts"}

\* C24: each of the five work kinds selects a handler of its own in run(); the
\* failure "Unknown work type" is produced for no kind among these five.
C24_FiveHandlers ==
    \A j \in Workers :
        workType[j] \in FiveWorkKinds =>
            /\ pc[j] # "unknown"
            /\ \A i \in 1..Len(signals[j]) : signals[j][i].text # UnknownWorkTypeReason

\* seq is an initial part of longer.
IsPrefix(seq, longer) ==
    /\ Len(seq) <= Len(longer)
    /\ SubSeq(longer, 1, Len(seq)) = seq

\* C25: runAgents changes the history only by appending, and only once its loop is
\* over: while the loop runs the history is what it was before the call although
\* the working list grows, and after a raising model invocation it is still that.
C25_HistoryOnlyAppendedAfterLoop ==
    [][\A j \in Workers :
         /\ IsPrefix(history, history')
         /\ (history' # history /\ UsesAgents(objects[j])) => pc[j] = "agents_save"
         /\ pc[j] = "agents_save" =>
                pc'[j] \in {"agents_save", "chat_emit"} /\ invocations' = invocations
         /\ pc'[j] \in {"agents_invoke", "agents_tools"} => history' = hist0'[j]
         /\ exc'[j].src = "llm" => history' = hist0'[j]]_vars

C25_Witness ==
    \E j \in Workers :
        /\ exc[j].src = "llm"
        /\ invocations[j] = 3
        /\ Len(hist0[j]) > 0
        /\ history = hist0[j]
        /\ Len(messages[j]) > Len(history) + 4

\* The assistant turns of worker j that were produced from tool results: the turn
\* right before them is a tool-result turn of this call.
TurnsFedWithResults(j) ==
    {k \in TurnsOfType(j, "ai") : k - 1 \in TurnsOfType(j, "tool")}

\* C26: when the assistant turn of round 6 requests tools, each of them is invoked
\* and its result is the end of the working list and of the history, and no model
\* invocation follows; tools run in up to 6 rounds, the model sees the results of at
\* most 5 of them.
C26_LastRoundToolsRun ==
    \A j \in Workers :
        /\ Cardinality(TurnsFedWithResults(j)) <= 5
        /\ Cardinality({k \in TurnsOfType(j, "ai") :
                           messages[j][k].tool_calls # NoCalls}) <= 6
        /\ (RunAgentsReturned(j) /\ invocations[j] = 6) =>
               LET m == messages[j]
                   last == CHOOSE k \in TurnsOfType(j, "ai") :
                               \A l \in TurnsOfType(j, "ai") : l <= k
                   calls == m[last].tool_calls
                   n == Len(calls)
               IN  /\ Len(m) = last + n
                   /\ \A i \in 1..n :
                          /\ m[last + i].type = "tool"
                          /\ m[last + i].tool_call_id = calls[i].id
                          /\ invoked[j][Len(invoked[j]) - n + i] = calls[i].id
                          /\ ~env[j].addRaises =>
                                 /\ Len(history) >= n
                                 /\ history[Len(history) - n + i] = m[last + i]
                   /\ invocations[j] = Cardinality(TurnsOfType(j, "ai"))

C26_Witness ==
    \E j \in Workers :
        /\ RunAgentsReturned(j)
        /\ ~env[j].addRaises
        /\ invocations[j] = 6
        /\ Len(messages[j][Len(messages[j]) - MaxCalls].tool_calls) = MaxCalls
        /\ Cardinality(TurnsFedWithResults(j)) = 5
        /\ history[Len(history)].type = "tool"

\* Worker j has bound or invoked a tool, or invoked the model with tools bound.
ToolLoopEntered(j) == bindCalls[j] > 0 \/ invocations[j] > 0 \/ invoked[j] # << >>

\* C23: a chat job takes exactly one of two paths. With agentTools not None and a
\* client that has bind_tools it runs the tool loop and never invokes the runnable;
\* otherwise it invokes the runnable exactly once, with session id 'global', and
\* never binds or invokes a tool.
C23_ExactlyOnePath ==
    \A j \in Workers :
        /\ ToolLoopEntered(j) =>
               /\ ~objects[j].agentTools.none /\ objects[j].bindTools
               /\ bindCalls[j] = 1
               /\ runnableCalls[j] = << >>
        /\ runnableCalls[j] # << >> =>
               /\ objects[j].agentTools.none \/ ~objects[j].bindTools
               /\ runnableCalls[j] = <<"global">>
               /\ ~ToolLoopEntered(j)
        /\ (workType[j] = "chatAPI" /\ signals[j] # << >> /\ exc[j] = NoExc) =>
               IF ~objects[j].agentTools.none /\ objects[j].bindTools
               THEN ToolLoopEntered(j) /\ invocations[j] >= 1
               ELSE runnableCalls[j] = <<"global">>

C23_Witness ==
    \E j \in Workers :
        /\ pc[j] = "returned"
        /\ exc[j] = NoExc
        /\ ~objects[j].agentTools.none
        /\ ~objects[j].bindTools
        /\ runnableCalls[j] = <<"global">>

\* activeThreads and activeWorkers hold, position by position, a thread and the
\* worker that was moved to it.
ListsPaired ==
    /\ Len(activeThreads) = Len(activeWorkers)
    /\ \A i \in 1..Len(activeWorkers) : activeThreads[i] = ThreadOf(activeWorkers[i])

\* C30: activeThreads and activeWorkers always have the same length and hold at
\* each position a thread and the worker moved to it; runWorker adds exactly one
\* entry at the end of each list and _onThreadFinished removes exactly the
\* finished thread and its own worker, leaving the other entries in their order.
C30_ListsStayPaired ==
    [][/\ ListsPaired /\ ListsPaired'
       /\ \A j \in Workers :
            /\ (threadState[j] = "none" /\ threadState'[j] = "running") =>
                   /\ activeThreads' = activeThreads \o <<ThreadOf(j)>>
                   /\ activeWorkers' = activeWorkers \o <<j>>
            /\ (threadState[j] = "running" /\ threadState'[j] = "finished") =>
                   /\ activeThreads' = SelectSeq(activeThreads, LAMBDA t : t # ThreadOf(j))
                   /\ activeWorkers' = SelectSeq(activeWorkers, LAMBDA w : w # j)
                   /\ Len(activeWorkers') = Len(activeWorkers) - 1
       /\ (\A j \in Workers : threadState'[j] = threadState[j]) =>
              UNCHANGED <<activeThreads, activeWorkers>>]_vars

C30_Witness ==
    /\ threadState["w1"] = "finished"
    /\ threadState["w2"] = "running"
    /\ activeThreads = <<"t2">>
    /\ activeWorkers = <<"w2">>

\* The chat jobs in flight: launched by runWorker, run() not yet returned.
ChatJobsInFlight ==
    {j \in Workers : /\ workType[j] = "chatAPI"
                     /\ threadState[j] = "running"
                     /\ pc[j] # "returned"}

\* C21: the UI serializes chat requests: at no time are two chat jobs in flight on
\* the one shared message history. Stated for jobs launched from different
\* exchanges, which no busy overlay keeps apart.
C21_OneChatJobInFlight ==
    \A j, k \in ChatJobsInFlight : origin[j] # origin[k] => j = k

\* C27: on the path without tools every chat request is answered by the client of
\* the service named in that request: the runnable handed to the worker is bound
\* to the client processPrompt built for that service.
C27_RunnableOfRequestedService ==
    \A j \in Workers :
        jobRunnable[j] # NoJobRunnable => jobRunnable[j].client = jobRunnable[j].service

\* The step is a call of upsertProfile or removeProfile whose updateConfig fails
\* in validateConfig.
ValidationFails ==
    \/ \E profile \in Profiles, originalName \in {""} \cup ProfileNames :
           /\ UpsertProfile(profile, originalName)
           /\ ~ValidateConfig(Upserted(config, profile,
                  IF originalName # "" THEN originalName ELSE profile.name))
    \/ \E name \in ProfileNames :
           /\ RemoveProfile(name)
           /\ ~ValidateConfig(SelectSeq(config, LAMBDA profile : profile.name # name))

\* C29: when validation fails inside updateConfig, called by upsertProfile or
\* removeProfile, ValueError is raised, the configuration file is not written, and
\* the in-memory configuration and the current profile are as before the call.
C29_FailedUpdateChangesNothing ==
    [][ValidationFails =>
           /\ uiException'.type = "ValueError"
           /\ configFile' = configFile
           /\ config' = config
           /\ currentProfile' = currentProfile]_vars

\* block occurs in h as one contiguous run of turns.
OccursAsBlock(h, block) ==
    \E p \in 1..(Len(h) - Len(block) + 1) : SubSeq(h, p, p + Len(block) - 1) = block

\* C28: when two tool-loop chat jobs overlap on the shared history, the turns of
\* each job that has returned from runAgents are in the history as one contiguous
\* block in the order the job produced them, and once both have returned the
\* history holds every turn of both jobs exactly once.
C28_TurnsStayContiguous ==
    /\ \A j \in Workers :
           RunAgentsReturned(j) => OccursAsBlock(history, newMessages[j])
    /\ (\A j \in Workers : RunAgentsReturned(j)) =>
           \E h0 \in InitialHistories :
               /\ IsPrefix(h0, history)
               /\ Len(history) = Len(h0) + Len(newMessages["w1"]) + Len(newMessages["w2"])

====
